---- MODULE Spec2Model ----
(***************************************************************************)
(* A model of pypower/opf_model.py: the OPF model object that keeps named  *)
(* blocks of variables, linear and nonlinear constraints and user costs,   *)
(* with their index ranges, and assembles them.                            *)
(*                                                                         *)
(* Python values are modelled as follows.                                  *)
(*   dict        a function; `k in d' is k \in DOMAIN d; {} is EmptyDict   *)
(*   1-D array   a sequence of integers; +Inf / -Inf are Inf / -Inf        *)
(*   2-D matrix  [nr, nc, e]: shape and the sequence of rows               *)
(*   None        an argument record with given = FALSE                     *)
(*   exceptions  the name of the exception in ret.exc ("none": returned)   *)
(*   logger.error(...)  the kind of the message, added to ret.log          *)
(***************************************************************************)
EXTENDS Integers, Sequences, FiniteSets, TLC

VARIABLES var, nln, lin, cost, userdata, ret

vars == <<var, nln, lin, cost, userdata, ret>>

(***************************************************************************)
(* Bounds of the model.                                                    *)
(***************************************************************************)
MaxBlocks == 2      \* variable and nonlinear blocks together; linear blocks;
                    \* cost blocks
MaxN == 2           \* size of a variable block / count of a nonlinear block

Inf == 1000         \* numpy's Inf: larger than every finite value used

VarNames == {"a", "b"}
NlnNames == {"n"}
LinNames == {"Pbal"}
CostNames == {"c"}

(***************************************************************************)
(* Python helpers.                                                         *)
(***************************************************************************)
EmptyDict == [k \in {} |-> 0]

Has(d, k) == k \in DOMAIN d

Put(d, k, v) == [y \in DOMAIN d \cup {k} |-> IF y = k THEN v ELSE d[y]]

Fill(n, x) == [i \in 1..n |-> x]

zeros(n) == Fill(n, 0)

ones(n) == Fill(n, 1)

\* an optional argument: None, or a value
NoneArg == [given |-> FALSE, v |-> <<>>]

Some(x) == [given |-> TRUE, v |-> x]

\* name=None
NoName == [given |-> FALSE, v |-> ""]

\* a matrix of shape (nr, nc) with every entry x
Mat(nr, nc, x) == [nr |-> nr, nc |-> nc, e |-> Fill(nr, Fill(nc, x))]

\* sparse((nr, nc)): the all-zero matrix of that shape
sparse(nr, nc) == Mat(nr, nc, 0)

RECURSIVE SumSeq(_)
SumSeq(s) == IF Len(s) = 0 THEN 0 ELSE Head(s) + SumSeq(Tail(s))

Ret(op, args, exc, log, out) ==
    [op |-> op, args |-> args, exc |-> exc, log |-> log, out |-> out]

NoOut == <<>>

(***************************************************************************)
(* __init__: the four registries and userdata are empty dicts.             *)
(***************************************************************************)
Init ==
    /\ var = EmptyDict
    /\ nln = EmptyDict
    /\ lin = EmptyDict
    /\ cost = EmptyDict
    /\ userdata = EmptyDict
    /\ ret = Ret("__init__", <<>>, "none", {}, NoOut)

(***************************************************************************)
(* The nested mappings the methods read (idx.i1, idx.iN, idx.N, N, NS,     *)
(* order, data) are created nowhere in opf_model.py.  InitRegistries is    *)
(* the empty state of the specification's data model: every category with  *)
(* total 0, no blocks, empty maps, order a mapping from position to name.  *)
(* The field ndarray of nln is bookkeeping of the model: the slots of the  *)
(* nonlinear ledger that hold a 1x1 numpy array instead of an int (the     *)
(* number kept in the slot is then the array's entry).                     *)
(***************************************************************************)
EmptyIdx == [i1 |-> EmptyDict, iN |-> EmptyDict, N |-> EmptyDict]

InitRegistries ==
    /\ ~Has(var, "idx")
    /\ var' = [idx |-> EmptyIdx, N |-> 0, NS |-> 0, order |-> EmptyDict,
               data |-> [v0 |-> EmptyDict, vl |-> EmptyDict, vu |-> EmptyDict]]
    /\ nln' = [idx |-> EmptyIdx, N |-> 0, NS |-> 0, order |-> EmptyDict,
               ndarray |-> {}]
    /\ lin' = [idx |-> EmptyIdx, N |-> 0, NS |-> 0, order |-> EmptyDict,
               data |-> [A |-> EmptyDict, l |-> EmptyDict, u |-> EmptyDict,
                         vs |-> EmptyDict]]
    /\ cost' = [idx |-> EmptyIdx, N |-> 0, NS |-> 0, order |-> EmptyDict,
                data |-> [N |-> EmptyDict, Cw |-> EmptyDict, vs |-> EmptyDict,
                          H |-> EmptyDict, dd |-> EmptyDict, rh |-> EmptyDict,
                          kk |-> EmptyDict, mm |-> EmptyDict]]
    /\ ret' = Ret("init_registries", <<>>, "none", {}, NoOut)
    /\ UNCHANGED userdata

(***************************************************************************)
(* add_vars(name, N, v0, vl, vu)                                           *)
(***************************************************************************)
\* the default of an omitted argument only: an empty vector is kept
OrDefaultIfNone(arg, dflt) == IF ~arg.given THEN dflt ELSE arg.v

\* the default of an omitted or empty vector argument
OrDefault(arg, dflt) == IF ~arg.given \/ Len(arg.v) = 0 THEN dflt ELSE arg.v

add_vars(name, N, v0, vl, vu) ==
    LET args == [name |-> name, N |-> N, v0 |-> v0, vl |-> vl, vu |-> vu] IN
    IF ~Has(var, "idx")
    THEN \* line 252: self.var["idx"] raises KeyError
         /\ ret' = Ret("add_vars", args, "KeyError", {}, NoOut)
         /\ UNCHANGED <<var, nln, lin, cost, userdata>>
    ELSE LET \* line 252-253: the duplicate is logged, the call goes on
             log == IF Has(var.idx.N, name) THEN {"DuplicateName"} ELSE {}
             d0 == OrDefault(v0, zeros(N))
             dl == OrDefault(vl, Fill(N, -Inf))
             du == OrDefault(vu, Fill(N, Inf))
             idx1 == [i1 |-> Put(var.idx.i1, name, var.N + 1),
                      iN |-> Put(var.idx.iN, name, var.N + N),
                      N  |-> Put(var.idx.N, name, N)]
         IN /\ var' = [idx |-> idx1,
                       N |-> idx1.iN[name],
                       NS |-> var.NS + 1,
                       order |-> Put(var.order, var.NS + 1, name),
                       data |-> [v0 |-> Put(var.data.v0, name, d0),
                                 vl |-> Put(var.data.vl, name, dl),
                                 vu |-> Put(var.data.vu, name, du)]]
            /\ ret' = Ret("add_vars", args, "none", log, NoOut)
            /\ UNCHANGED <<nln, lin, cost, userdata>>

(***************************************************************************)
(* Variable-set lists.  A stored varsets is either the caller's list or,   *)
(* when the caller gave none, the dict self.var["order"] itself (lines 96  *)
(* and 178 assign the object, not a copy): ref = TRUE stands for that      *)
(* reference, read through the current var["order"].                       *)
(***************************************************************************)
VarOrderRef == [ref |-> TRUE, v |-> <<>>]

ListOf(s) == [ref |-> FALSE, v |-> s]

\* len(varsets)
VsLen(vs) == IF vs.ref THEN Cardinality(DOMAIN var.order) ELSE Len(vs.v)

\* varsets[k] is defined (k counts from 0; a dict raises KeyError otherwise)
VsHas(vs, k) == IF vs.ref THEN Has(var.order, k) ELSE k + 1 \in 1..Len(vs.v)

\* varsets[k]
VsGet(vs, k) == IF vs.ref THEN var.order[k] ELSE vs.v[k + 1]

\* lines 102-104 and 183-185: nv, the summed sizes of the variable sets
NvOf(vs) ==
    LET n == VsLen(vs)
        bad(k) == ~VsHas(vs, k) \/ ~Has(var.idx.N, VsGet(vs, k))
    IN IF \E k \in 0..(n - 1) : bad(k)
       THEN [exc |-> "KeyError", nv |-> 0]
       ELSE [exc |-> "none",
             nv |-> SumSeq([k \in 1..n |-> var.idx.N[VsGet(vs, k - 1)]])]

(***************************************************************************)
(* add_constraints(name, AorN, l, u, varsets)                              *)
(* AorN is a count, or a matrix; n is the count, or the entry of a 1x1     *)
(* matrix.                                                                 *)
(***************************************************************************)
Count(n) == [mat |-> FALSE, n |-> n, m |-> Mat(0, 0, 0)]

Matrix(m) ==
    [mat |-> TRUE,
     n |-> IF m.nr = 1 /\ m.nc = 1 THEN m.e[1][1] ELSE 0,
     m |-> m]

\* opf_model defines no __getitem__: self["lin"] raises TypeError
Subscriptable == FALSE

\* lines 66-79: u is None, the nonlinear branch.  A matrix that arrives here
\* is a 1x1 numpy array: int + array is the array of the sum.
add_constraints_nln(name, AorN, args) ==
    IF ~Has(nln, "idx")
    THEN /\ ret' = Ret("add_constraints", args, "KeyError", {}, NoOut)
         /\ UNCHANGED <<var, nln, lin, cost, userdata>>
    ELSE LET log == IF Has(nln.idx.N, name) THEN {"DuplicateName"} ELSE {}
             tArr == <<"total", "">> \in nln.ndarray
             idx1 == [i1 |-> Put(nln.idx.i1, name, nln.N + 1),
                      iN |-> Put(nln.idx.iN, name, nln.N + AorN.n),
                      N  |-> Put(nln.idx.N, name, AorN.n)]
             slots == {<<"i1", name>>, <<"iN", name>>, <<"N", name>>,
                       <<"total", "">>}
             arr == (IF tArr THEN {<<"i1", name>>} ELSE {})
                    \cup (IF tArr \/ AorN.mat
                          THEN {<<"iN", name>>, <<"total", "">>} ELSE {})
                    \cup (IF AorN.mat THEN {<<"N", name>>} ELSE {})
         IN /\ nln' = [idx |-> idx1,
                       N |-> idx1.iN[name],
                       NS |-> nln.NS + 1,
                       order |-> Put(nln.order, nln.NS + 1, name),
                       ndarray |-> (nln.ndarray \ slots) \cup arr]
            /\ ret' = Ret("add_constraints", args, "none", log, NoOut)
            /\ UNCHANGED <<var, lin, cost, userdata>>

\* lines 82-123: the linear branch
add_constraints_lin(name, A, l, u, varsets, args) ==
    LET raise(exc, log) ==
            /\ ret' = Ret("add_constraints", args, exc, log, NoOut)
            /\ UNCHANGED <<var, nln, lin, cost, userdata>>
    IN
    IF ~Has(lin, "idx") THEN raise("KeyError", {})
    ELSE
    LET log1 == IF Has(lin.idx.N, name) THEN {"DuplicateName"} ELSE {}
        vs0 == IF varsets.given THEN varsets.v ELSE <<>>
        N == A.nr
        M == A.nc
    IN
    IF ~l.given THEN raise("TypeError", log1)     \* line 89: len(None)
    ELSE
    LET l1 == IF Len(l.v) = 0 THEN Fill(N, -Inf) ELSE l.v
        u1 == IF Len(u.v) = 0 THEN Fill(N, Inf) ELSE u.v
        vsl == IF Len(vs0) = 0 THEN VarOrderRef ELSE ListOf(vs0)
        log2 == IF Len(l1) # N \/ Len(u1) # N
                THEN {"DimensionMismatch"} ELSE {}
        nv == NvOf(vsl)
    IN
    IF nv.exc # "none" THEN raise(nv.exc, log1 \cup log2)
    ELSE
    LET log3 == IF M # nv.nv THEN {"DimensionMismatch"} ELSE {}
        log == log1 \cup log2 \cup log3
    IN
    IF ~Subscriptable THEN raise("TypeError", log)   \* line 110: self["lin"]
    ELSE
    LET idx1 == [i1 |-> Put(lin.idx.i1, name, lin.N + 1),
                 iN |-> Put(lin.idx.iN, name, lin.N + N),
                 N  |-> Put(lin.idx.N, name, N)]
    IN /\ lin' = [idx |-> idx1,
                  N |-> idx1.iN[name],
                  NS |-> lin.NS + 1,
                  order |-> Put(lin.order, lin.NS + 1, name),
                  data |-> [A |-> Put(lin.data.A, name, A),
                            l |-> Put(lin.data.l, name, l1),
                            u |-> Put(lin.data.u, name, u1),
                            vs |-> Put(lin.data.vs, name, vsl)]]
       /\ ret' = Ret("add_constraints", args, "none", log, NoOut)
       /\ UNCHANGED <<var, nln, cost, userdata>>

add_constraints(name, AorN, l, u, varsets) ==
    LET args == [name |-> name, AorN |-> AorN, l |-> l, u |-> u,
                 varsets |-> varsets]
    IN IF ~u.given
       THEN add_constraints_nln(name, AorN, args)
       ELSE add_constraints_lin(name, AorN.m, l, u, varsets, args)

(***************************************************************************)
(* add_costs(name, cp, varsets)                                            *)
(* cp is the dict of cost parameters: N and Cw, and the optional fields    *)
(* named in cp.has.                                                        *)
(***************************************************************************)
OptFields == {"H", "dd", "rh", "kk", "mm"}

\* a dict defines no __and__: cp & x raises TypeError
DictAnd == FALSE

\* lines 212-238: the block is stored
add_costs_store(name, cp, vsl, args, log) ==
    LET nw == cp.N.nr
        idx1 == [i1 |-> Put(cost.idx.i1, name, cost.N + 1),
                 iN |-> Put(cost.idx.iN, name, cost.N + nw),
                 N  |-> Put(cost.idx.N, name, nw)]
        \* lines 221-231 store dd, rh, kk, mm under the key "name"
        opt(f) == IF f \in cp.has THEN Put(cost.data[f], "name", cp[f])
                  ELSE cost.data[f]
        data1 == [N |-> Put(cost.data.N, name, cp.N),
                  Cw |-> Put(cost.data.Cw, name, cp.Cw),
                  vs |-> Put(cost.data.vs, name, vsl),
                  H |-> IF "H" \in cp.has THEN Put(cost.data.H, name, cp.H)
                        ELSE cost.data.H,
                  dd |-> opt("dd"), rh |-> opt("rh"),
                  kk |-> opt("kk"), mm |-> opt("mm")]
    IN IF ~Has(idx1.iN, "name")
       THEN \* line 234: self.cost["idx"]["iN"]["name"] raises KeyError
            /\ cost' = [cost EXCEPT !.idx = idx1, !.data = data1]
            /\ ret' = Ret("add_costs", args, "KeyError", log, NoOut)
            /\ UNCHANGED <<var, nln, lin, userdata>>
       ELSE /\ cost' = [cost EXCEPT !.idx = idx1, !.data = data1,
                                    !.N = idx1.iN["name"],
                                    !.NS = cost.NS + 1,
                                    !.order = Put(cost.order, cost.NS + 1, name)]
            /\ ret' = Ret("add_costs", args, "none", log, NoOut)
            /\ UNCHANGED <<var, nln, lin, userdata>>

add_costs(name, cp, varsets) ==
    LET args == [name |-> name, cp |-> cp, varsets |-> varsets]
        raise(exc, log) ==
            /\ ret' = Ret("add_costs", args, exc, log, NoOut)
            /\ UNCHANGED <<var, nln, lin, cost, userdata>>
    IN
    IF ~Has(cost, "idx") THEN raise("KeyError", {})
    ELSE
    LET log1 == IF Has(cost.idx.N, name) THEN {"DuplicateName"} ELSE {}
        vs0 == IF varsets.given THEN varsets.v ELSE <<>>
        vsl == IF Len(vs0) = 0 THEN VarOrderRef ELSE ListOf(vs0)
        nw == cp.N.nr
        nx == cp.N.nc
        nv == NvOf(vsl)
    IN
    IF nv.exc # "none" THEN raise(nv.exc, log1)
    \* line 189: sparse(nw, nx) takes nx for the shape and raises TypeError
    ELSE IF nx # nv.nv /\ nw = 0 THEN raise("TypeError", log1)
    ELSE
    LET log2 == IF nx # nv.nv THEN {"DimensionMismatch"} ELSE {}
        log == log1 \cup log2
    IN
    \* line 194: the message has four %d for three values: TypeError
    IF Len(cp.Cw) # nw THEN raise("TypeError", log)
    \* line 196: 'H' in cp & (...) is 'H' in (cp & (...)): cp["H"] first
    ELSE IF "H" \notin cp.has THEN raise("KeyError", log)
    ELSE IF ~DictAnd THEN raise("TypeError", log)
    \* lines 199-209: the same form for dd, rh, kk, mm
    ELSE IF ~({"dd", "rh", "kk", "mm"} \subseteq cp.has)
         THEN raise("KeyError", log)
    ELSE add_costs_store(name, cp, vsl, args, log)

(***************************************************************************)
(* numpy slices.  a:b selects the positions a, ..., b-1 counted from 0,    *)
(* cut at the length.  An assignment to a slice takes a value of the       *)
(* slice's shape, or stretches a dimension of size 1 (broadcasting);       *)
(* anything else raises ValueError.                                        *)
(***************************************************************************)
Min(a, b) == IF a < b THEN a ELSE b

\* the number of positions of a:b in a sequence of length n
SliceLen(n, a, b) == IF Min(b, n) > a THEN Min(b, n) - a ELSE 0

\* v[a:b] = w
VecAssign(v, a, b, w) ==
    LET t == SliceLen(Len(v), a, b)
    IN IF Len(w) # t /\ Len(w) # 1
       THEN [exc |-> "ValueError", v |-> v]
       ELSE [exc |-> "none",
             v |-> [i \in 1..Len(v) |->
                      IF i > a /\ i <= a + t
                      THEN w[IF Len(w) = t THEN i - a ELSE 1]
                      ELSE v[i]]]

\* m[:, a:b]
Cols(m, a, b) ==
    LET t == SliceLen(m.nc, a, b)
    IN [nr |-> m.nr, nc |-> t,
        e |-> [r \in 1..m.nr |-> [c \in 1..t |-> m.e[r][a + c]]]]

\* m[a:b, :]
Rows(m, a, b) ==
    LET t == SliceLen(m.nr, a, b)
    IN [nr |-> t, nc |-> m.nc,
        e |-> [r \in 1..t |-> m.e[a + r]]]

\* T[r0:r1, c0:c1] = S
MatAssign(T, r0, r1, c0, c1, S) ==
    LET tr == SliceLen(T.nr, r0, r1)
        tc == SliceLen(T.nc, c0, c1)
    IN IF (S.nr # tr /\ S.nr # 1) \/ (S.nc # tc /\ S.nc # 1)
       THEN [exc |-> "ValueError", m |-> T]
       ELSE [exc |-> "none",
             m |-> [T EXCEPT !.e =
                     [r \in 1..T.nr |-> [c \in 1..T.nc |->
                        IF r > r0 /\ r <= r0 + tr /\ c > c0 /\ c <= c0 + tc
                        THEN S.e[IF S.nr = tr THEN r - r0 ELSE 1]
                                [IF S.nc = tc THEN c - c0 ELSE 1]
                        ELSE T.e[r][c]]]]]

(***************************************************************************)
(* The column scatter of lines 318-323 and 656-661: for v in vsl, the      *)
(* columns k1:kN of the block's matrix Sk are assigned to the columns      *)
(* j1:jN, rows r0:r1, of T.                                                *)
(***************************************************************************)
RECURSIVE ScatterNames(_, _, _, _, _, _)
ScatterNames(T, r0, r1, Sk, names, kN) ==
    IF Len(names) = 0 THEN [exc |-> "none", m |-> T]
    ELSE LET v == Head(names)
         IN IF ~Has(var.idx.i1, v) THEN [exc |-> "KeyError", m |-> T]
            ELSE LET j1 == var.idx.i1[v]
                     jN == var.idx.iN[v]
                     k1 == kN + 1
                     kN1 == kN + var.idx.N[v]
                     r == MatAssign(T, r0, r1, j1, jN, Cols(Sk, k1, kN1))
                 IN IF r.exc # "none" THEN r
                    ELSE ScatterNames(r.m, r0, r1, Sk, Tail(names), kN1)

\* a stored reference to var["order"] iterates over the dict's keys, the
\* positions: self.var["idx"]["i1"][v] raises KeyError on the first
Scatter(T, r0, r1, Sk, vsl) ==
    IF vsl.ref
    THEN IF DOMAIN var.order = {} THEN [exc |-> "none", m |-> T]
         ELSE [exc |-> "KeyError", m |-> T]
    ELSE ScatterNames(T, r0, r1, Sk, vsl.v, 0)

(***************************************************************************)
(* linear_constraints(): the result [exc, A, l, u]                         *)
(***************************************************************************)
\* lines 647-665: the body of the loop for the name at position k
LinPiece(name, acc) ==
    LET N == lin.idx.N[name]
    IN IF N = 0 THEN acc
       ELSE LET Ak == lin.data.A[name]
                i1 == lin.idx.i1[name]
                iN == lin.idx.iN[name]
                vsl == lin.data.vs[name]
                Ai == Scatter(sparse(N, var.N), 0, N, Ak, vsl)
            IN IF Ai.exc # "none" THEN [acc EXCEPT !.exc = Ai.exc]
               ELSE LET A1 == MatAssign(acc.A, i1, iN, 0, acc.A.nc, Ai.m)
                        l1 == VecAssign(acc.l, i1, iN, lin.data.l[name])
                        u1 == VecAssign(acc.u, i1, iN, lin.data.u[name])
                    IN IF A1.exc # "none" THEN [acc EXCEPT !.exc = A1.exc]
                       ELSE IF l1.exc # "none"
                            THEN [acc EXCEPT !.exc = l1.exc, !.A = A1.m]
                       ELSE IF u1.exc # "none"
                            THEN [acc EXCEPT !.exc = u1.exc, !.A = A1.m,
                                             !.l = l1.v]
                       ELSE [exc |-> "none", A |-> A1.m, l |-> l1.v,
                             u |-> u1.v]

\* line 646: for k in range(self.lin["NS"])
RECURSIVE LinLoop(_, _)
LinLoop(k, acc) ==
    IF k >= lin.NS \/ acc.exc # "none" THEN acc
    ELSE IF ~Has(lin.order, k) THEN [acc EXCEPT !.exc = "KeyError"]
    ELSE LinLoop(k + 1, LinPiece(lin.order[k], acc))

LinearConstraints ==
    IF ~Has(lin, "N")
    THEN [exc |-> "KeyError", A |-> sparse(0, 0), l |-> <<>>, u |-> <<>>]
    ELSE LinLoop(0, [exc |-> "none",
                     A |-> sparse(lin.N, var.N),
                     l |-> Fill(lin.N, -Inf),
                     u |-> Fill(lin.N, Inf)])

linear_constraints ==
    LET r == LinearConstraints
    IN /\ ret' = Ret("linear_constraints", <<>>, r.exc, {},
                     IF r.exc = "none" THEN [A |-> r.A, l |-> r.l, u |-> r.u]
                     ELSE NoOut)
       /\ UNCHANGED <<var, nln, lin, cost, userdata>>

(***************************************************************************)
(* build_cost_params(): BuildCostParams is [exc, p], p the dict saved in   *)
(* self.cost["params"].                                                    *)
(***************************************************************************)
\* lines 311-339: the body of the loop for the name at position k
CostPiece(name, acc) ==
    LET p == acc.p
        Nk == cost.data.N[name]
        i1 == cost.idx.i1[name]
        iN == cost.idx.iN[name]
    IN IF cost.idx.N[name] = 0 THEN acc
       ELSE
       LET N1 == Scatter(p.N, i1, iN, Nk, cost.data.vs[name])
           opt(f, v) == IF Has(cost.data[f], name)
                        THEN VecAssign(v, i1, iN, cost.data[f][name])
                        ELSE [exc |-> "none", v |-> v]
           Cw1 == VecAssign(p.Cw, i1, iN, cost.data.Cw[name])
           H1 == IF Has(cost.data.H, name)
                 THEN MatAssign(p.H, i1, iN, i1, iN, cost.data.H[name])
                 ELSE [exc |-> "none", m |-> p.H]
           dd1 == opt("dd", p.dd)
           rh1 == opt("rh", p.rh)
           kk1 == opt("kk", p.kk)
           mm1 == opt("mm", p.mm)
           excs == <<N1.exc, Cw1.exc, H1.exc, dd1.exc, rh1.exc, kk1.exc,
                     mm1.exc>>
       IN IF \E i \in 1..7 : excs[i] # "none"
          THEN [acc EXCEPT !.exc =
                  excs[CHOOSE i \in 1..7 :
                         /\ excs[i] # "none"
                         /\ \A j \in 1..(i - 1) : excs[j] = "none"]]
          ELSE [exc |-> "none",
                p |-> [N |-> N1.m, Cw |-> Cw1.v, H |-> H1.m, dd |-> dd1.v,
                       rh |-> rh1.v, kk |-> kk1.v, mm |-> mm1.v]]

\* line 310: for k in range(self.cost["NS"])
RECURSIVE CostLoop(_, _)
CostLoop(k, acc) ==
    IF k >= cost.NS \/ acc.exc # "none" THEN acc
    ELSE IF ~Has(cost.order, k) THEN [acc EXCEPT !.exc = "KeyError"]
    ELSE CostLoop(k + 1, CostPiece(cost.order[k], acc))

\* lines 292-307: the parameters before the loop
EmptyParams(nw, nx) ==
    [N |-> sparse(nw, nx), Cw |-> zeros(nw), H |-> sparse(nw, nw),
     dd |-> ones(nw), rh |-> zeros(nw), kk |-> zeros(nw), mm |-> ones(nw)]

BuildCostParams ==
    IF ~Has(cost, "N")
    THEN [exc |-> "KeyError", p |-> EmptyParams(0, 0)]
    ELSE CostLoop(0, [exc |-> "none", p |-> EmptyParams(cost.N, var.N)])

\* build_cost_params that skips the building when it was done before
build_cost_params_once ==
    LET r == BuildCostParams
    IN /\ ret' = Ret("build_cost_params", <<>>, r.exc, {}, NoOut)
       /\ cost' = IF r.exc = "none" /\ ~Has(cost, "params")
                  THEN Put(cost, "params", r.p) ELSE cost
       /\ UNCHANGED <<var, nln, lin, userdata>>

build_cost_params ==
    LET r == BuildCostParams
    IN /\ ret' = Ret("build_cost_params", <<>>, r.exc, {}, NoOut)
       /\ cost' = IF r.exc = "none" THEN Put(cost, "params", r.p) ELSE cost
       /\ UNCHANGED <<var, nln, lin, userdata>>

(***************************************************************************)
(* getN(selector, name): the result [exc, N]                               *)
(***************************************************************************)
\* getattr(self, selector)
Reg(selector) ==
    CASE selector = "var" -> var
      [] selector = "nln" -> nln
      [] selector = "lin" -> lin
      [] selector = "cost" -> cost

\* getN on the registry reg.  Line 589 tests `name is not None': a name
\* given yields the total of lines 590, no name the lookup of None in
\* idx["N"] of line 592, which no dict of names holds.
GetNOf(reg, name) ==
    IF name.given
    THEN IF ~Has(reg, "N") THEN [exc |-> "KeyError", N |-> 0]
         ELSE [exc |-> "none", N |-> reg.N]
    ELSE IF ~Has(reg, "idx") THEN [exc |-> "KeyError", N |-> 0]
         ELSE [exc |-> "none", N |-> 0]

GetN(selector, name) == GetNOf(Reg(selector), name)

getN(selector, name) ==
    LET r == GetN(selector, name)
    IN /\ ret' = Ret("getN", [selector |-> selector, name |-> name], r.exc, {},
                     IF r.exc = "none" THEN [N |-> r.N] ELSE NoOut)
       /\ UNCHANGED <<var, nln, lin, cost, userdata>>

(***************************************************************************)
(* getv(name): the result [exc, v0, vl, vu] holds the three local          *)
(* variables at the end of the body; the method has no return statement    *)
(* and hands None to its caller.                                           *)
(***************************************************************************)
\* lines 611-615: for k in range(self.var["NS"]), r_[v, data[name]]
RECURSIVE GetvLoop(_, _)
GetvLoop(k, acc) ==
    IF k >= var.NS \/ acc.exc # "none" THEN acc
    ELSE IF ~Has(var.order, k) THEN [acc EXCEPT !.exc = "KeyError"]
    ELSE LET name == var.order[k]
         IN GetvLoop(k + 1, [exc |-> "none",
                             v0 |-> acc.v0 \o var.data.v0[name],
                             vl |-> acc.vl \o var.data.vl[name],
                             vu |-> acc.vu \o var.data.vu[name]])

Getv(name) ==
    LET empty == [exc |-> "none", v0 |-> <<>>, vl |-> <<>>, vu |-> <<>>]
    IN IF ~name.given
       THEN IF ~Has(var, "NS") THEN [empty EXCEPT !.exc = "KeyError"]
            ELSE GetvLoop(0, empty)
       ELSE IF ~Has(var, "idx") THEN [empty EXCEPT !.exc = "KeyError"]
       ELSE IF Has(var.idx.N, name.v)
            THEN [exc |-> "none", v0 |-> var.data.v0[name.v],
                  vl |-> var.data.vl[name.v], vu |-> var.data.vu[name.v]]
            ELSE empty

\* what a method without a return statement returns: None
ReturnsNothing(r) == NoOut

getv(name) ==
    LET r == Getv(name)
    IN /\ ret' = Ret("getv", [name |-> name], r.exc, {}, ReturnsNothing(r))
       /\ UNCHANGED <<var, nln, lin, cost, userdata>>

(***************************************************************************)
(* get_cost_params(name) on the cost registry c: the result                *)
(* [exc, log, out, params], out the dict returned and params the dict      *)
(* left in c["params"] (cp is that dict itself, and lines 515-521 assign   *)
(* to its keys).                                                           *)
(***************************************************************************)
\* range(a, b): a, ..., b - 1
Range(a, b) == [i \in 1..(IF b > a THEN b - a ELSE 0) |-> a + i - 1]

\* v[idx], idx a list of positions counted from 0
VecAt(v, idx) == [i \in 1..Len(idx) |-> v[idx[i] + 1]]

\* m[idx, :]
RowsAt(m, idx) ==
    [nr |-> Len(idx), nc |-> m.nc, e |-> [i \in 1..Len(idx) |-> m.e[idx[i] + 1]]]

\* lines 514-521: the fields of cp indexed by idx
SliceParams(cp, idx) ==
    [N |-> RowsAt(cp.N, idx), Cw |-> VecAt(cp.Cw, idx),
     H |-> RowsAt(cp.H, idx), dd |-> VecAt(cp.dd, idx),
     rh |-> VecAt(cp.rh, idx), kk |-> VecAt(cp.kk, idx),
     mm |-> VecAt(cp.mm, idx)]

\* get_cost_params without the test of lines 507-510: a registry that was
\* never assembled yields an empty struct
GetCostParamsUnchecked(c, name) ==
    LET cp == IF Has(c, "params") THEN c.params ELSE EmptyParams(0, 0)
    IN [exc |-> "none", log |-> {}, out |-> cp, params |-> cp]

GetCostParams(c, name) ==
    LET none == EmptyParams(0, 0)
        raise(exc, log) ==
            [exc |-> exc, log |-> log, out |-> none,
             params |-> IF Has(c, "params") THEN c.params ELSE none]
    IN
    \* lines 507-510: the message is logged, then c["params"] is read
    IF ~Has(c, "params") THEN raise("KeyError", {"NotAssembled"})
    ELSE
    LET cp == c.params
        n == GetNOf(c, name)
    IN
    IF ~name.given
    THEN [exc |-> "none", log |-> {}, out |-> cp, params |-> cp]
    ELSE IF n.exc # "none" THEN raise(n.exc, {})
    ELSE IF n.N = 0             \* line 513: the total is falsy
    THEN [exc |-> "none", log |-> {}, out |-> cp, params |-> cp]
    ELSE IF ~Has(c.idx.i1, name.v) \/ ~Has(c.idx.iN, name.v)
    THEN raise("KeyError", {})
    ELSE
    LET idx == Range(c.idx.i1[name.v], c.idx.iN[name.v])
    IN IF \E i \in 1..Len(idx) : idx[i] >= cp.N.nr
       THEN raise("IndexError", {})
       ELSE LET s == SliceParams(cp, idx)
            IN [exc |-> "none", log |-> {}, out |-> s, params |-> s]

get_cost_params(name) ==
    LET r == GetCostParams(cost, name)
    IN /\ ret' = Ret("get_cost_params", [name |-> name], r.exc, r.log,
                     IF r.exc = "none" THEN r.out ELSE NoOut)
       /\ cost' = IF Has(cost, "params") THEN Put(cost, "params", r.params)
                  ELSE cost
       /\ UNCHANGED <<var, nln, lin, userdata>>

(***************************************************************************)
(* compute_cost(x, name) on the cost registry c: the result                *)
(* [exc, log, params].  No call returns a value: line 398 evaluates        *)
(* 0 & kk first, and kk is an array of floats (copy(zeros(nw)), line 306), *)
(* for which numpy defines no bitwise and: TypeError, whatever the size    *)
(* of kk.                                                                  *)
(***************************************************************************)
ComputeCost(c, x, name) ==
    LET g == GetCostParams(c, name)
        raise(exc) == [exc |-> exc, log |-> g.log, params |-> g.params]
    IN IF g.exc # "none" THEN raise(g.exc)
       \* line 396: N * x needs len(x) columns
       ELSE IF Len(x) # g.out.N.nc THEN raise("ValueError")
       \* line 398
       ELSE raise("TypeError")

compute_cost(x, name) ==
    LET r == ComputeCost(cost, x, name)
    IN /\ ret' = Ret("compute_cost", [x |-> x, name |-> name], r.exc, r.log,
                     NoOut)
       /\ cost' = IF Has(cost, "params") THEN Put(cost, "params", r.params)
                  ELSE cost
       /\ UNCHANGED <<var, nln, lin, userdata>>

(***************************************************************************)
(* get_idx(): the four idx dicts                                           *)
(***************************************************************************)
get_idx ==
    LET ok == /\ Has(var, "idx") /\ Has(lin, "idx")
              /\ Has(nln, "idx") /\ Has(cost, "idx")
    IN /\ ret' = Ret("get_idx", <<>>, IF ok THEN "none" ELSE "KeyError", {},
                     IF ok THEN [vv |-> var.idx, ll |-> lin.idx,
                                 nn |-> nln.idx, cc |-> cost.idx]
                     ELSE NoOut)
       /\ UNCHANGED <<var, nln, lin, cost, userdata>>

(***************************************************************************)
(* userdata(name, val).  __init__ assigns the dict self.userdata (line     *)
(* 43), and an attribute of the instance hides the method of the class of  *)
(* the same name: om.userdata(name, val) calls the dict, TypeError.        *)
(***************************************************************************)
\* val=None
NoVal == [given |-> FALSE, v |-> 0]

\* om.userdata is the method (not the dict of line 43)
MethodVisible == FALSE

\* lines 680-686: the body of the method on the dict d: [exc, d, found, val]
Userdata(d, name, val) ==
    IF val.given
    THEN [exc |-> "none", d |-> Put(d, name, val.v), found |-> FALSE, val |-> 0]
    ELSE IF Has(d, name)
         THEN [exc |-> "none", d |-> d, found |-> TRUE, val |-> d[name]]
         ELSE [exc |-> "none", d |-> d, found |-> FALSE, val |-> 0]

userdata_method(name, val) ==
    LET args == [name |-> name, val |-> val]
        r == Userdata(userdata, name, val)
    IN IF ~MethodVisible
       THEN /\ ret' = Ret("userdata", args, "TypeError", {}, NoOut)
            /\ UNCHANGED <<var, nln, lin, cost, userdata>>
       ELSE /\ ret' = Ret("userdata", args, r.exc, {},
                          IF r.found THEN [val |-> r.val] ELSE NoOut)
            /\ userdata' = r.d
            /\ UNCHANGED <<var, nln, lin, cost>>

(***************************************************************************)
(* The inputs of the model.                                                *)
(***************************************************************************)
\* a matrix whose entries are all different: entry (r, c) is 10 r + c
DMat(nr, nc) ==
    [nr |-> nr, nc |-> nc, e |-> [r \in 1..nr |-> [c \in 1..nc |-> 10 * r + c]]]

LinMats == {Mat(1, 1, 1), Mat(1, 2, 1), DMat(2, 3)}

\* (l, u) for a matrix of N rows: omitted and empty bounds, bounds of the
\* right length, and a bound of the wrong length
LUArgs(N) ==
    { <<Some(<<>>), NoneArg>>,
      <<Some(<<>>), Some(<<>>)>>,
      <<Some(Fill(N, 150)), Some(Fill(N, 150))>>,
      <<Some(Fill(N + 1, 150)), Some(Fill(N, 150))>>,
      <<Some(Fill(N, 150)), Some(Fill(N + 1, 150))>> }

VarsetArgs == {NoneArg, Some(<<"a">>), Some(<<"a", "b">>)}

\* the number of variable and nonlinear blocks registered so far
Blocks == IF Has(var, "idx") THEN var.NS + nln.NS ELSE 0

\* cost parameters over the matrix N: the required fields alone, every
\* optional field of the right size, and one field of the wrong size
CostParams(N) ==
    LET nw == N.nr
        base == [N |-> N, Cw |-> Fill(nw, 3), has |-> {},
                 H |-> sparse(0, 0), dd |-> <<>>, rh |-> <<>>, kk |-> <<>>,
                 mm |-> <<>>]
        full == [N |-> N, Cw |-> Fill(nw, 3), has |-> OptFields,
                 H |-> Mat(nw, nw, 4), dd |-> Fill(nw, 2), rh |-> Fill(nw, 6),
                 kk |-> Fill(nw, 7), mm |-> Fill(nw, 8)]
    IN { base, full,
         [base EXCEPT !.Cw = Fill(nw + 1, 3)],
         [full EXCEPT !.H = Mat(nw, nw + 1, 4)],
         [full EXCEPT !.dd = Fill(nw + 1, 2)] }

CostMats == {Mat(0, 1, 0), DMat(1, 1), DMat(2, 2)}

CostVarsetArgs == {NoneArg, Some(<<"b">>), Some(<<"a", "b">>)}

\* the categories a lookup selects
Selectors == {"var", "nln", "lin", "cost"}

\* the name of a lookup: none, a name that add_vars registers, a name of
\* a cost registration, and a name that nothing registers
LookupArgs == {NoName, Some("a"), Some("zz")}

CostLookupArgs == {NoName, Some("c"), Some("zz")}

\* the keys and values of user data
UserKeys == {"aux"}

UserVals == {NoVal, Some(7), Some(8)}

\* points x of every length up to MaxN
Points == {Fill(n, 1) : n \in 0..MaxN}

Next ==
    \/ InitRegistries
    \/ \E name \in VarNames, N \in 0..MaxN, given \in BOOLEAN :
          /\ Blocks < MaxBlocks
          /\ LET a == IF given THEN Some(Fill(N, 5)) ELSE NoneArg
             IN add_vars(name, N, a, a, a)
    \/ \E name \in NlnNames, N \in 0..MaxN :
          /\ Blocks < MaxBlocks
          /\ add_constraints(name, Count(N), NoneArg, NoneArg, NoneArg)
    \/ \E name \in LinNames, A \in LinMats, vs \in VarsetArgs :
          \E lu \in LUArgs(A.nr) :
             /\ ~lu[2].given => Blocks < MaxBlocks
             /\ Has(lin, "idx") => lin.NS < MaxBlocks
             \* a matrix given without u is taken for a count: 1x1 only
             /\ ~lu[2].given => A.nr = 1 /\ A.nc = 1
             /\ add_constraints(name, Matrix(A), lu[1], lu[2], vs)
    \/ \E name \in CostNames, N \in CostMats, vs \in CostVarsetArgs :
          \E cp \in CostParams(N) :
             /\ Has(cost, "idx") => cost.NS < MaxBlocks
             /\ add_costs(name, cp, vs)
    \/ linear_constraints
    \/ build_cost_params
    \/ \E selector \in Selectors, name \in LookupArgs : getN(selector, name)
    \/ \E name \in LookupArgs : getv(name)
    \/ \E name \in CostLookupArgs : get_cost_params(name)
    \/ \E x \in Points, name \in CostLookupArgs : compute_cost(x, name)
    \/ \E name \in UserKeys, val \in UserVals : userdata_method(name, val)
    \/ get_idx

Spec == Init /\ [][Next]_vars

(***************************************************************************)
(* The cost parameters: registration of variables and of costs, assembly   *)
(* of the cost parameters, and the two reads of them.                      *)
(***************************************************************************)
NextParams ==
    \/ InitRegistries
    \/ \E name \in VarNames, N \in 0..MaxN :
          /\ Blocks < MaxBlocks
          /\ add_vars(name, N, NoneArg, NoneArg, NoneArg)
    \/ \E name \in CostNames, N \in CostMats, vs \in CostVarsetArgs :
          \E cp \in CostParams(N) :
             /\ Has(cost, "idx") => cost.NS < MaxBlocks
             /\ add_costs(name, cp, vs)
    \/ build_cost_params
    \/ \E name \in CostLookupArgs : get_cost_params(name)
    \/ \E x \in Points, name \in CostLookupArgs : compute_cost(x, name)

SpecParams == Init /\ [][NextParams]_vars

(***************************************************************************)
(* Registration of variable blocks with every form of v0, vl, vu.          *)
(***************************************************************************)
\* (v0, vl, vu) for a block of size N: all omitted, all empty, all given,
\* one given with one omitted and one empty, and a vector of another length
VarData(N) ==
    { <<NoneArg, NoneArg, NoneArg>>,
      <<Some(<<>>), Some(<<>>), Some(<<>>)>>,
      <<Some(Fill(N, 5)), Some(Fill(N, 4)), Some(Fill(N, 6))>>,
      <<Some(Fill(N, 5)), NoneArg, Some(<<>>)>>,
      <<NoneArg, Some(Fill(N, 4)), NoneArg>>,
      <<Some(Fill(N + 1, 5)), NoneArg, NoneArg>> }

NextVars ==
    \/ InitRegistries
    \/ \E name \in VarNames, N \in 0..MaxN :
          \E d \in VarData(N) :
             /\ Blocks < MaxBlocks
             /\ add_vars(name, N, d[1], d[2], d[3])

SpecVars == Init /\ [][NextVars]_vars

(***************************************************************************)
(* compute_cost as a function of the parameters and the point.  The        *)
(* registration of a cost block never completes (add_costs), so a cost     *)
(* row is reached through no call: InitEval is the state of the            *)
(* specification's data model after add_vars("a", 1), add_costs("c", p)    *)
(* and build_cost_params(), for a one-row parameter struct p.              *)
(***************************************************************************)
EvalParams ==
    { [N |-> Mat(1, 1, 1), Cw |-> <<cw>>, H |-> Mat(1, 1, h), dd |-> <<d>>,
       rh |-> <<r>>, kk |-> <<k>>, mm |-> <<m>>] :
        cw \in {1, 3}, h \in {0, 2}, d \in {1, 2, 3}, r \in {0, 1},
        k \in {0, 5}, m \in {1, 2} }

EvalPoints == { <<v>> : v \in {-6, -5, -1, 0, 1, 5, 6} }

One(name, v) == Put(EmptyDict, name, v)

InitEval ==
    /\ var = [idx |-> [i1 |-> One("a", 1), iN |-> One("a", 1),
                       N |-> One("a", 1)],
              N |-> 1, NS |-> 1, order |-> One(1, "a"),
              data |-> [v0 |-> One("a", <<0>>), vl |-> One("a", <<-Inf>>),
                        vu |-> One("a", <<Inf>>)]]
    /\ nln = [idx |-> EmptyIdx, N |-> 0, NS |-> 0, order |-> EmptyDict,
              ndarray |-> {}]
    /\ lin = [idx |-> EmptyIdx, N |-> 0, NS |-> 0, order |-> EmptyDict,
              data |-> [A |-> EmptyDict, l |-> EmptyDict, u |-> EmptyDict,
                        vs |-> EmptyDict]]
    /\ \E p \in EvalParams :
          cost = [idx |-> [i1 |-> One("c", 1), iN |-> One("c", 1),
                           N |-> One("c", 1)],
                  N |-> 1, NS |-> 1, order |-> One(1, "c"),
                  data |-> [N |-> One("c", p.N), Cw |-> One("c", p.Cw),
                            vs |-> One("c", ListOf(<<"a">>)),
                            H |-> One("c", p.H), dd |-> One("c", p.dd),
                            rh |-> One("c", p.rh), kk |-> One("c", p.kk),
                            mm |-> One("c", p.mm)],
                  params |-> p]
    /\ userdata = EmptyDict
    /\ ret = Ret("build_cost_params", <<>>, "none", {}, NoOut)

NextEval == \E x \in EvalPoints : compute_cost(x, NoName)

SpecEval == InitEval /\ [][NextEval]_vars

(***************************************************************************)
(* The reads of the assembled parameters, by block name and without one,   *)
(* on the model with one registered cost block.                            *)
(***************************************************************************)
NextReads ==
    \/ \E name \in CostLookupArgs : get_cost_params(name)
    \/ \E x \in EvalPoints, name \in CostLookupArgs : compute_cost(x, name)

SpecReads == InitEval /\ [][NextReads]_vars

(***************************************************************************)
(* The cost function as the documentation of compute_cost defines it       *)
(* (F_U(X, CP)), for the parameters cp at the point x.                     *)
(***************************************************************************)
\* N * x
MatVec(m, x) ==
    [i \in 1..m.nr |-> SumSeq([j \in 1..m.nc |-> m.e[i][j] * x[j]])]

\* R = N*x - rh
CostR(cp, x) == [i \in 1..cp.N.nr |-> MatVec(cp.N, x)[i] - cp.rh[i]]

\* the row i lies in the dead zone: -kk(i) <= R(i) <= kk(i)
InDeadZone(cp, x, i) ==
    -cp.kk[i] <= CostR(cp, x)[i] /\ CostR(cp, x)[i] <= cp.kk[i]

\* RR = R + K
CostRR(cp, x) ==
    [i \in 1..cp.N.nr |->
        LET R == CostR(cp, x)[i]
        IN IF R < -cp.kk[i] THEN R + cp.kk[i]
           ELSE IF R > cp.kk[i] THEN R - cp.kk[i]
           ELSE R]

\* U(i)
CostU(cp, x) == [i \in 1..cp.N.nr |-> IF InDeadZone(cp, x, i) THEN 0 ELSE 1]

\* w = (Dl + Dq * diag(RR)) * RR
CostW(cp, x) ==
    [i \in 1..cp.N.nr |->
        LET RR == CostRR(cp, x)[i]
            mu == cp.mm[i] * CostU(cp, x)[i]
        IN IF cp.dd[i] = 1 THEN mu * RR
           ELSE IF cp.dd[i] = 2 THEN mu * RR * RR
           ELSE 0]

\* 2 * F_U = w'*H*w + 2 * Cw'*w
TwiceF(cp, x) ==
    LET w == CostW(cp, x)
        nw == cp.N.nr
    IN SumSeq([i \in 1..nw |->
                 SumSeq([j \in 1..nw |-> w[i] * cp.H.e[i][j] * w[j]])])
       + 2 * SumSeq([i \in 1..nw |-> cp.Cw[i] * w[i]])

(***************************************************************************)
(* What the claims speak of.                                               *)
(***************************************************************************)
\* the registries exist
Laid == Has(var, "idx")

\* a call was rejected with an error of the given kind: it did not return,
\* and the error was reported
Rejected(r, kind) == r.exc # "none" /\ kind \in r.log

\* the name at each position 1..NS of a category's insertion order
Registered(reg, k) == Has(reg.order, k) /\ Has(reg.idx.N, reg.order[k])

\* the index entries of a category are contiguous in insertion order
Contiguous(reg) ==
    LET n == reg.NS
        nm(k) == reg.order[k]
    IN /\ \A k \in 1..n : Registered(reg, k)
       /\ n >= 1 => reg.idx.i1[nm(1)] = 1
       /\ \A k \in 2..n : reg.idx.i1[nm(k)] = reg.idx.iN[nm(k - 1)] + 1
       /\ \A k \in 1..n :
             reg.idx.iN[nm(k)] - reg.idx.i1[nm(k)] + 1 = reg.idx.N[nm(k)]
       /\ reg.N = IF n = 0 THEN 0 ELSE reg.idx.iN[nm(n)]

\* no name was registered twice in the category
NoDuplicate(reg) ==
    \A j, k \in DOMAIN reg.order : j # k => reg.order[j] # reg.order[k]

\* C1: after any sequence of registrations, in each of the four categories
\* the blocks in insertion order start at 1, follow one another without a
\* gap, have iN - i1 + 1 = N, and the total is the last block's iN.
C1_Contiguity ==
    Laid => /\ Contiguous(var)
            /\ Contiguous(nln)
            /\ Contiguous(lin)
            /\ Contiguous(cost)

\* the step is a registration under a name its category already holds
DuplicateCall ==
    /\ Laid
    /\ \/ ret'.op = "add_vars" /\ Has(var.idx.N, ret'.args.name)
       \/ /\ ret'.op = "add_constraints"
          /\ IF ret'.args.u.given THEN Has(lin.idx.N, ret'.args.name)
             ELSE Has(nln.idx.N, ret'.args.name)
       \/ ret'.op = "add_costs" /\ Has(cost.idx.N, ret'.args.name)

\* C2: registering a name that its category already holds fails with
\* DuplicateName and leaves every category exactly as it was.
C2_DuplicateRejected ==
    [][DuplicateCall =>
         /\ Rejected(ret', "DuplicateName")
         /\ UNCHANGED <<var, nln, lin, cost>>]_vars

(***************************************************************************)
(* Registrations as the specification's data model means them.             *)
(***************************************************************************)
\* the names of a category in insertion order
OrderNames(reg) == [k \in 1..reg.NS |-> reg.order[k]]

\* the variable sets a registration refers to: the caller's list, or every
\* variable block registered so far
VarsetNames(varsets) ==
    IF varsets.given /\ Len(varsets.v) > 0 THEN varsets.v ELSE OrderNames(var)

VarsetsKnown(varsets) ==
    \A i \in 1..Len(VarsetNames(varsets)) :
        Has(var.idx.N, VarsetNames(varsets)[i])

\* the summed sizes of the variable blocks
SumSizes(names) == SumSeq([i \in 1..Len(names) |-> var.idx.N[names[i]]])

\* a bound vector fits N rows: omitted, empty, or of length N
BoundOk(b, N) == ~b.given \/ Len(b.v) = 0 \/ Len(b.v) = N

Omitted(b) == ~b.given \/ Len(b.v) = 0

\* the arguments of a linear registration fit together
LinArgsOk(a) ==
    /\ BoundOk(a.l, a.AorN.m.nr)
    /\ BoundOk(a.u, a.AorN.m.nr)
    /\ a.AorN.m.nc = SumSizes(VarsetNames(a.varsets))

\* the arguments of a cost registration fit together
CostArgsOk(a) ==
    LET cp == a.cp
        nw == cp.N.nr
    IN /\ cp.N.nc = SumSizes(VarsetNames(a.varsets))
       /\ Len(cp.Cw) = nw
       /\ "H" \in cp.has => cp.H.nr = nw /\ cp.H.nc = nw
       /\ \A f \in {"dd", "mm", "rh", "kk"} : f \in cp.has => Len(cp[f]) = nw

\* the step is a linear registration whose sizes do not fit
LinMismatchCall ==
    /\ Laid
    /\ ret'.op = "add_constraints"
    /\ ret'.args.AorN.mat
    /\ ret'.args.u.given
    /\ VarsetsKnown(ret'.args.varsets)
    /\ ~LinArgsOk(ret'.args)

\* C3: a linear registration whose l or u length differs from the rows of
\* A_local, or whose columns differ from the summed sizes of its varsets,
\* fails with DimensionMismatch and leaves the linear registry unmodified.
C3_LinMismatchRejected ==
    [][LinMismatchCall =>
         /\ Rejected(ret', "DimensionMismatch")
         /\ lin' = lin]_vars

\* the step is a cost registration of nw > 0 rows whose sizes do not fit
CostMismatchCall ==
    /\ Laid
    /\ ret'.op = "add_costs"
    /\ ret'.args.cp.N.nr > 0
    /\ VarsetsKnown(ret'.args.varsets)
    /\ ~CostArgsOk(ret'.args)

\* C4: a cost registration with nw > 0 whose N_local columns, Cw rows, H
\* shape or dd, mm, rh, kk length do not fit fails with DimensionMismatch
\* and leaves the cost registry unmodified.
C4_CostMismatchRejected ==
    [][CostMismatchCall =>
         /\ Rejected(ret', "DimensionMismatch")
         /\ cost' = cost]_vars

(***************************************************************************)
(* Placement of a block in an assembled matrix.                            *)
(***************************************************************************)
\* the names a stored varsets stands for, given the variable registry
StoredNames(vs, v) == IF vs.ref THEN OrderNames(v) ELSE vs.v

\* the global columns i1..iN of the variable blocks, one after another
RECURSIVE GlobalCols(_)
GlobalCols(names) ==
    IF Len(names) = 0 THEN <<>>
    ELSE LET v == Head(names)
         IN [k \in 1..var.idx.N[v] |-> var.idx.i1[v] + k - 1]
            \o GlobalCols(Tail(names))

\* the matrix A holds the local matrix Ak in the rows from i1 on, at the
\* global columns of the variable blocks names, and zero elsewhere in
\* those rows
Placed(A, Ak, i1, names) ==
    LET gc == GlobalCols(names)
        used == {gc[c] : c \in 1..Len(gc)}
    IN /\ Len(gc) = Ak.nc
       /\ i1 + Ak.nr - 1 <= A.nr
       /\ \A c \in 1..Ak.nc : gc[c] \in 1..A.nc
       /\ \A r \in 1..Ak.nr :
             /\ \A c \in 1..Ak.nc : A.e[i1 + r - 1][gc[c]] = Ak.e[r][c]
             /\ \A c \in (1..A.nc) \ used : A.e[i1 + r - 1][c] = 0

\* the vector v holds w in the positions from i1 on
PlacedVec(v, w, i1) ==
    /\ i1 + Len(w) - 1 <= Len(v)
    /\ \A r \in 1..Len(w) : v[i1 + r - 1] = w[r]

\* the last call was a linear registration whose arguments fit, with no
\* name used twice
ValidLinCall ==
    /\ Laid
    /\ ret.op = "add_constraints"
    /\ ret.args.AorN.mat
    /\ ret.args.u.given
    /\ NoDuplicate(var)
    /\ NoDuplicate(lin)
    /\ VarsetsKnown(ret.args.varsets)
    /\ LinArgsOk(ret.args)

\* C5: for every registered linear block, the matrix of linear_constraints
\* restricted to the block's rows and to the global columns of its
\* varsets equals the block's local matrix, and is zero in every other
\* column of those rows.
C5_LinearBlockPlaced ==
    ValidLinCall =>
        LET r == LinearConstraints
        IN /\ r.exc = "none"
           /\ Has(lin.idx.N, ret.args.name)
           /\ \A b \in DOMAIN lin.idx.N :
                 Placed(r.A, lin.data.A[b], lin.idx.i1[b],
                        StoredNames(lin.data.vs[b], var))

\* C6: linear_constraints returns A of (total linear rows) x (total
\* variables) and l, u of length total linear rows, and over each block's
\* rows l and u are the bounds the block was registered with.
C6_LinearShapeAndBounds ==
    ValidLinCall =>
        LET r == LinearConstraints
            a == ret.args
            N == a.AorN.m.nr
        IN /\ r.exc = "none"
           /\ r.A.nr = lin.N /\ r.A.nc = var.N
           /\ Len(r.l) = lin.N /\ Len(r.u) = lin.N
           /\ Has(lin.idx.N, a.name)
           /\ lin.idx.N[a.name] = N
           /\ PlacedVec(r.l, IF Omitted(a.l) THEN Fill(N, -Inf) ELSE a.l.v,
                        lin.idx.i1[a.name])
           /\ PlacedVec(r.u, IF Omitted(a.u) THEN Fill(N, Inf) ELSE a.u.v,
                        lin.idx.i1[a.name])
           /\ \A b \in DOMAIN lin.idx.N :
                 /\ PlacedVec(r.l, lin.data.l[b], lin.idx.i1[b])
                 /\ PlacedVec(r.u, lin.data.u[b], lin.idx.i1[b])

\* the last call registered a matrix as a linear block with l or u omitted
\* or empty, the arguments fitting otherwise
OmittedBoundCall ==
    /\ Laid
    /\ ret.op = "add_constraints"
    /\ ret.args.AorN.mat
    /\ Omitted(ret.args.l) \/ Omitted(ret.args.u)
    /\ NoDuplicate(var)
    /\ NoDuplicate(lin)
    /\ VarsetsKnown(ret.args.varsets)
    /\ LinArgsOk(ret.args)

\* C7: a linear block registered with l and/or u omitted or empty is
\* registered in the linear category, and in no other, with the omitted
\* bound a length-N vector of -Inf (l) or +Inf (u).
C7_OmittedBoundsDefault ==
    OmittedBoundCall =>
        LET a == ret.args
            N == a.AorN.m.nr
        IN /\ Has(lin.idx.N, a.name)
           /\ ~Has(nln.idx.N, a.name)
           /\ lin.idx.N[a.name] = N
           /\ Omitted(a.l) => lin.data.l[a.name] = Fill(N, -Inf)
           /\ Omitted(a.u) => lin.data.u[a.name] = Fill(N, Inf)

\* a registration without explicit varsets, the arguments fitting: a linear
\* block (r.op = "add_constraints") or a cost block (r.op = "add_costs")
ImplicitVarsetsCall(r) ==
    /\ r.op \in {"add_constraints", "add_costs"}
    /\ ~r.args.varsets.given \/ Len(r.args.varsets.v) = 0
    /\ NoDuplicate(var)
    /\ IF r.op = "add_constraints"
       THEN r.args.AorN.mat /\ r.args.u.given /\ LinArgsOk(r.args)
       ELSE CostArgsOk(r.args)

\* the varsets stored for the blocks of a registry with data.vs
StoredVarsets(reg, v) ==
    [b \in DOMAIN reg.data.vs |-> StoredNames(reg.data.vs[b], v)]

\* C8: a linear or cost block registered without explicit varsets is bound
\* to the variable blocks that existed when it was registered; a later
\* add_vars does not change the varsets stored for it.
C8_ImplicitVarsetsSnapshot ==
    [][Laid =>
         /\ ImplicitVarsetsCall(ret') =>
              LET reg == IF ret'.op = "add_constraints" THEN lin' ELSE cost'
                  name == ret'.args.name
              IN /\ Has(reg.data.vs, name)
                 /\ StoredNames(reg.data.vs[name], var') = OrderNames(var)
         /\ ret'.op = "add_vars" =>
              /\ StoredVarsets(lin', var') = StoredVarsets(lin, var)
              /\ StoredVarsets(cost', var') = StoredVarsets(cost, var)]_vars

\* the last call was a cost registration whose arguments fit, with no name
\* used twice
ValidCostCall ==
    /\ Laid
    /\ ret.op = "add_costs"
    /\ NoDuplicate(var)
    /\ NoDuplicate(cost)
    /\ VarsetsKnown(ret.args.varsets)
    /\ CostArgsOk(ret.args)

\* C9: after build_cost_params, for every registered cost block the
\* aggregate N restricted to the block's rows and to the global columns of
\* its varsets equals the block's N_local, and is zero in every other
\* column of those rows (a block over b alone has the columns of a zero).
C9_CostBlockPlaced ==
    ValidCostCall =>
        LET r == BuildCostParams
        IN /\ r.exc = "none"
           /\ Has(cost.idx.N, ret.args.name)
           /\ \A b \in DOMAIN cost.idx.N :
                 Placed(r.p.N, cost.data.N[b], cost.idx.i1[b],
                        StoredNames(cost.data.vs[b], var))

\* the default of an optional vector field
FieldDefault(f) == IF f \in {"dd", "mm"} THEN 1 ELSE 0

\* the rows i1..iN of the block b in the vector v
BlockRows(reg, b, v) ==
    [r \in 1..reg.idx.N[b] |-> v[reg.idx.i1[b] + r - 1]]

\* C10: after build_cost_params, each of dd, mm, rh, kk over a cost block's
\* rows is the value that block supplied, or the default (dd = 1, mm = 1,
\* rh = 0, kk = 0) if it supplied none; registering another block does not
\* change the values in the rows of the blocks registered before.
C10_OptionalFieldsPerBlock ==
    [][(ValidCostCall)' =>
         LET r == (BuildCostParams)'
             r0 == BuildCostParams
             a == ret'.args
             nw == a.cp.N.nr
         IN /\ r.exc = "none"
            /\ Has(cost'.idx.N, a.name)
            /\ cost'.idx.iN[a.name] <= Len(r.p.dd)
            /\ \A f \in {"dd", "mm", "rh", "kk"} :
                  /\ BlockRows(cost', a.name, r.p[f])
                       = IF f \in a.cp.has THEN a.cp[f]
                         ELSE Fill(nw, FieldDefault(f))
                  /\ \A b \in DOMAIN cost.idx.N \ {a.name} :
                        r0.exc = "none" =>
                           BlockRows(cost', b, r.p[f])
                             = BlockRows(cost, b, r0.p[f])]_vars

\* the sub-matrix of m on the rows r1.., columns c1.., of shape nr x nc
SubMat(m, r1, c1, nr, nc) ==
    [nr |-> nr, nc |-> nc,
     e |-> [r \in 1..nr |-> [c \in 1..nc |-> m.e[r1 + r - 1][c1 + c - 1]]]]

\* the rows i1..iN of a registered block
RowsOf(reg, b) == reg.idx.i1[b]..reg.idx.iN[b]

\* C11: after build_cost_params the aggregate H is total_nw x total_nw and
\* block-diagonal: on a block's rows and that block's columns it is the H
\* the block supplied (zero if none), every entry whose row and column
\* belong to different blocks is zero, and the aggregate Cw over a block's
\* rows is that block's Cw.
C11_BlockDiagonalH ==
    ValidCostCall =>
        LET r == BuildCostParams
            a == ret.args
            nw == a.cp.N.nr
            i1 == cost.idx.i1[a.name]
        IN /\ r.exc = "none"
           /\ r.p.H.nr = cost.N /\ r.p.H.nc = cost.N
           /\ Len(r.p.Cw) = cost.N
           /\ Has(cost.idx.N, a.name)
           /\ cost.idx.N[a.name] = nw
           /\ cost.idx.iN[a.name] <= cost.N
           /\ SubMat(r.p.H, i1, i1, nw, nw)
                 = IF "H" \in a.cp.has THEN a.cp.H ELSE sparse(nw, nw)
           /\ BlockRows(cost, a.name, r.p.Cw) = a.cp.Cw
           /\ \A b1, b2 \in DOMAIN cost.idx.N :
                 b1 # b2 => \A i \in RowsOf(cost, b1), j \in RowsOf(cost, b2) :
                               r.p.H.e[i][j] = 0

\* the rows i1..iN of the block b in the matrix m, at full width
BlockRowsMat(reg, b, m) ==
    [nr |-> reg.idx.N[b], nc |-> m.nc,
     e |-> [r \in 1..reg.idx.N[b] |-> m.e[reg.idx.i1[b] + r - 1]]]

\* the last call was get_cost_params() with no name on an assembled model
FullParamsCall ==
    /\ ret.op = "get_cost_params"
    /\ ~ret.args.name.given
    /\ Has(cost, "params")

\* C12: get_cost_params() with no name returns the full aggregate struct;
\* get_cost_params(name) for a registered block returns a struct whose N
\* has the block's nw rows at the full variable width and whose Cw, H, dd,
\* rh, kk, mm are the rows i1..iN of that block, all of them and no other.
C12_GetCostParams ==
    /\ FullParamsCall => ret.exc = "none" /\ ret.out = cost.params
    /\ ValidCostCall =>
          LET b == BuildCostParams
              a == ret.args
              nw == a.cp.N.nr
              g == GetCostParams(Put(cost, "params", b.p), Some(a.name))
          IN /\ b.exc = "none"
             /\ g.exc = "none"
             /\ Has(cost.idx.N, a.name)
             /\ cost.idx.N[a.name] = nw
             /\ cost.idx.iN[a.name] <= b.p.N.nr
             /\ g.out.N = BlockRowsMat(cost, a.name, b.p.N)
             /\ g.out.N.nr = nw /\ g.out.N.nc = var.N
             /\ g.out.H = BlockRowsMat(cost, a.name, b.p.H)
             /\ g.out.Cw = a.cp.Cw
             /\ \A f \in {"dd", "mm", "rh", "kk"} :
                   /\ g.out[f] = BlockRows(cost, a.name, b.p[f])
                   /\ g.out[f] = IF f \in a.cp.has THEN a.cp[f]
                                 ELSE Fill(nw, FieldDefault(f))

(***************************************************************************)
(* compute_cost on assembled parameters.                                   *)
(***************************************************************************)
\* the call r was compute_cost(x) with no name, x of the width of N, on
\* the assembled registry c
EvalCallOf(r, c) ==
    /\ r.op = "compute_cost"
    /\ ~r.args.name.given
    /\ Has(c, "params")
    /\ Len(r.args.x) = c.params.N.nc

EvalCall == EvalCallOf(ret, cost)

\* the call returned the cost f
ReturnedCost(r, f) == r.exc = "none" /\ r.out.f = f

Abs(n) == IF n < 0 THEN -n ELSE n

\* every row of the parameters lies in the dead zone at the point of r
AllDead(r, c) ==
    \A i \in 1..c.params.N.nr : InDeadZone(c.params, r.args.x, i)

\* the parameters are the quadratic row N = [1], dd = 2, rh = 0, kk = 5
QuadraticRow(cp) ==
    /\ cp.N = Mat(1, 1, 1)
    /\ cp.dd = <<2>> /\ cp.rh = <<0>> /\ cp.kk = <<5>>

LinearParams(cp) ==
    /\ cp.kk = zeros(cp.N.nr)
    /\ cp.dd = ones(cp.N.nr)
    /\ cp.mm = ones(cp.N.nr)
    /\ cp.H = sparse(cp.N.nr, cp.N.nr)

NoTermSelected(cp) == \A i \in 1..cp.N.nr : cp.dd[i] \notin {1, 2}

UnassembledRead ==
    /\ ret'.op \in {"get_cost_params", "compute_cost"}
    /\ ~Has(cost, "params")

\* C17: get_cost_params and compute_cost on a model on which
\* build_cost_params was never called fail, reporting NotAssembled, and
\* return no parameter struct and no cost; nothing is changed.
C17_NotAssembled ==
    [][UnassembledRead =>
         /\ Rejected(ret', "NotAssembled")
         /\ ret'.out = NoOut
         /\ UNCHANGED <<var, nln, lin, cost, userdata>>]_vars

\* compute_cost was refused on a model with a variable block and no
\* assembled parameters
C17_Witness ==
    /\ Laid
    /\ var.NS > 0
    /\ ~Has(cost, "params")
    /\ ret.op = "compute_cost"
    /\ ret.exc = "KeyError"
    /\ "NotAssembled" \in ret.log

\* the call returned a value (a method that returns None returns none)
Returned(r) == r.exc = "none" /\ DOMAIN r.out # {}

\* the last call was the lookup op of a name that was never registered in
\* the category reg
UnknownLookup(op, reg) ==
    /\ ret.op = op
    /\ ret.args.name.given
    /\ ~Has(reg.idx.N, ret.args.name.v)

\* C18: the lookup of a never-registered name is not fatal in getv, which
\* returns empty v0, vl, vu, and in getN, which returns 0; it is fatal in
\* get_cost_params(name), which returns neither the full nor a sliced
\* struct.
C18_UnknownBlock ==
    Laid =>
        /\ UnknownLookup("getv", var) =>
              /\ Returned(ret)
              /\ ret.out = [v0 |-> <<>>, vl |-> <<>>, vu |-> <<>>]
        /\ (ret.op = "getN" /\ UnknownLookup("getN", Reg(ret.args.selector)))
              => Returned(ret) /\ ret.out.N = 0
        /\ UnknownLookup("get_cost_params", cost) => ret.exc # "none"

\* the vectors of the field f of the variable blocks names, one after
\* another
RECURSIVE ConcatData(_, _)
ConcatData(names, f) ==
    IF Len(names) = 0 THEN <<>>
    ELSE var.data[f][Head(names)] \o ConcatData(Tail(names), f)

\* C19: getv() with no name returns (v0, vl, vu), each the concatenation
\* over the variable blocks in insertion order of the block's vector, of
\* length the total variable count, block b at the positions i1_b..iN_b;
\* getv(name) returns the named block's own three vectors.
C19_GetvConcatenation ==
    (Laid /\ NoDuplicate(var) /\ ret.op = "getv") =>
        IF ~ret.args.name.given
        THEN /\ Returned(ret)
             /\ \A f \in {"v0", "vl", "vu"} :
                   /\ ret.out[f] = ConcatData(OrderNames(var), f)
                   /\ Len(ret.out[f]) = var.N
                   /\ \A b \in DOMAIN var.idx.N :
                         PlacedVec(ret.out[f], var.data[f][b], var.idx.i1[b])
        ELSE Has(var.idx.N, ret.args.name.v) =>
               /\ Returned(ret)
               /\ \A f \in {"v0", "vl", "vu"} :
                     ret.out[f] = var.data[f][ret.args.name.v]

\* what add_vars is to store for the argument arg of a block of size N
StoredFor(arg, N, dflt) == IF Omitted(arg) THEN Fill(N, dflt) ELSE arg.v

\* C20: add_vars(name, N) stores v0 = N zeros, vl = N times -Inf and
\* vu = N times +Inf for each of v0, vl, vu that is omitted or empty, and
\* stores a supplied vector unchanged.
C20_AddVarsDefaults ==
    [][(Laid /\ ret'.op = "add_vars") =>
         LET a == ret'.args
         IN /\ ret'.exc = "none"
            /\ Has(var'.data.v0, a.name)
            /\ var'.data.v0[a.name] = StoredFor(a.v0, a.N, 0)
            /\ var'.data.vl[a.name] = StoredFor(a.vl, a.N, -Inf)
            /\ var'.data.vu[a.name] = StoredFor(a.vu, a.N, Inf)]_vars

\* a block of two variables was registered with v0 supplied, vl omitted
\* and vu empty
C20_Witness ==
    /\ Laid
    /\ ret.op = "add_vars"
    /\ ret.exc = "none"
    /\ ret.args.N = 2
    /\ ret.args.v0 = Some(<<5, 5>>)
    /\ ~ret.args.vl.given
    /\ ret.args.vu = Some(<<>>)
    /\ var.data.v0[ret.args.name] = <<5, 5>>
    /\ var.data.vl[ret.args.name] = <<-Inf, -Inf>>
    /\ var.data.vu[ret.args.name] = <<Inf, Inf>>

\* the sum of the sizes of the blocks registered in a category
TotalOf(reg) ==
    SumSeq([k \in 1..reg.NS |->
              IF Registered(reg, k) THEN reg.idx.N[reg.order[k]] ELSE 0])

\* C21: getN(category) with no name returns the category's total count,
\* the sum of the sizes of its blocks; getN(category, name) returns the
\* size N of the named block, or 0 if the category holds no such block.
C21_GetN ==
    (Laid /\ ret.op = "getN" /\ NoDuplicate(Reg(ret.args.selector))) =>
        LET reg == Reg(ret.args.selector)
            name == ret.args.name
        IN /\ Returned(ret)
           /\ ret.out.N = IF ~name.given THEN TotalOf(reg)
                           ELSE IF Has(reg.idx.N, name.v)
                                THEN reg.idx.N[name.v]
                                ELSE 0

\* C22: on a constructed model userdata(key, value) stores the value and a
\* later userdata(key) returns the value stored last for the key;
\* userdata(key) for a key never set returns None; neither call changes a
\* registry.
C22_Userdata ==
    [][ret'.op = "userdata" =>
         LET key == ret'.args.name
             val == ret'.args.val
         IN /\ ret'.exc = "none"
            /\ UNCHANGED <<var, nln, lin, cost>>
            /\ IF val.given
               THEN /\ Has(userdata', key)
                    /\ userdata'[key] = val.v
               ELSE /\ userdata' = userdata
                    /\ IF Has(userdata, key)
                       THEN Returned(ret') /\ ret'.out.val = userdata[key]
                       ELSE ~Returned(ret')]_vars

\* the state of a model as __init__ leaves it
Fresh == ret.op = "__init__"

\* a category is empty: total 0, no blocks, empty index maps
EmptyCategory(reg) ==
    /\ Has(reg, "N") /\ Has(reg, "NS") /\ Has(reg, "idx")
    /\ reg.N = 0
    /\ reg.NS = 0
    /\ reg.idx = EmptyIdx

\* C23: a freshly created model is in a well-defined empty state: every
\* category has total 0, no blocks and empty index maps; from that state
\* the first registration (of a variable block, of a nonlinear block)
\* succeeds and gives the block i1 = 1; and get_idx, getN, getv,
\* linear_constraints and build_cost_params can be called.
C23_FreshEmptyState ==
    [][Fresh =>
         /\ EmptyCategory(var) /\ EmptyCategory(nln)
         /\ EmptyCategory(lin) /\ EmptyCategory(cost)
         /\ ret'.op = "add_vars" =>
               /\ ret'.exc = "none"
               /\ var'.idx.i1[ret'.args.name] = 1
         /\ (ret'.op = "add_constraints" /\ ~ret'.args.u.given) =>
               /\ ret'.exc = "none"
               /\ nln'.idx.i1[ret'.args.name] = 1
         /\ ret'.op \in {"get_idx", "getN", "getv", "linear_constraints",
                         "build_cost_params"} => ret'.exc = "none"]_vars

\* the global columns of the variable blocks names in the variable
\* registry v, one after another
RECURSIVE GlobalColsIn(_, _)
GlobalColsIn(v, names) ==
    IF Len(names) = 0 THEN <<>>
    ELSE [k \in 1..v.idx.N[Head(names)] |-> v.idx.i1[Head(names)] + k - 1]
         \o GlobalColsIn(v, Tail(names))

\* the rows of A from i1 on hold Ak at the columns gc and zero elsewhere
PlacedAt(A, Ak, i1, gc) ==
    LET used == {gc[c] : c \in 1..Len(gc)}
    IN /\ Len(gc) = Ak.nc
       /\ i1 + Ak.nr - 1 <= A.nr
       /\ \A c \in 1..Ak.nc : gc[c] \in 1..A.nc
       /\ \A r \in 1..Ak.nr :
             /\ \A c \in 1..Ak.nc : A.e[i1 + r - 1][gc[c]] = Ak.e[r][c]
             /\ \A c \in (1..A.nc) \ used : A.e[i1 + r - 1][c] = 0

\* the last call registered a linear block with explicit varsets, and the
\* step registers a further variable block
AddVarsAfterLinear ==
    /\ ValidLinCall
    /\ ret.args.varsets.given /\ Len(ret.args.varsets.v) > 0
    /\ ret'.op = "add_vars"
    /\ ret'.exc = "none"
    /\ ~Has(var.idx.N, ret'.args.name)

\* C24: column offsets are those of the variable registry when
\* linear_constraints is called: for a linear block registered with
\* explicit varsets and followed by an add_vars, the assembled matrix has
\* as many columns as the final total of variables, the block's local
\* columns sit at the global ranges of its variable blocks, and the
\* columns of the variable block added later are zero in its rows.
C24_OffsetsAtAssembly ==
    [][AddVarsAfterLinear =>
         LET a == ret.args
             r == (LinearConstraints)'
         IN /\ r.exc = "none"
            /\ r.A.nc = var'.N
            /\ r.A.nr = lin'.N
            /\ Has(lin'.idx.N, a.name)
            /\ PlacedAt(r.A, a.AorN.m, lin'.idx.i1[a.name],
                        GlobalColsIn(var', a.varsets.v))
            /\ \A i \in 1..a.AorN.m.nr :
                  \A c \in var'.idx.i1[ret'.args.name]
                              ..var'.idx.iN[ret'.args.name] :
                     r.A.e[lin'.idx.i1[a.name] + i - 1][c] = 0]_vars

\* the step is a cost registration under a new name with an N_local of
\* zero rows whose columns do not fit the variable sets, the other
\* parameters fitting
ZeroRowMismatchCall ==
    LET a == ret'.args
    IN /\ Laid
       /\ ret'.op = "add_costs"
       /\ a.cp.N.nr = 0
       /\ NoDuplicate(var)
       /\ ~Has(cost.idx.N, a.name)
       /\ VarsetsKnown(a.varsets)
       /\ a.cp.N.nc # SumSizes(VarsetNames(a.varsets))
       /\ Len(a.cp.Cw) = 0
       /\ "H" \in a.cp.has => a.cp.H.nr = 0 /\ a.cp.H.nc = 0
       /\ \A f \in {"dd", "mm", "rh", "kk"} :
             f \in a.cp.has => Len(a.cp[f]) = 0

\* C25: add_costs with an N_local of zero rows whose column count does
\* not match the summed sizes of its varsets does not fail: an all-zero
\* placeholder of zero rows is stored for the block, the block is
\* registered with N = 0, and the cost total is unchanged.
C25_ZeroRowPlaceholder ==
    [][ZeroRowMismatchCall =>
         LET a == ret'.args
         IN /\ ret'.exc = "none"
            /\ Has(cost'.idx.N, a.name)
            /\ cost'.idx.N[a.name] = 0
            /\ Has(cost'.data.N, a.name)
            /\ cost'.data.N[a.name] = sparse(0, a.cp.N.nc)
            /\ cost'.NS = cost.NS + 1
            /\ cost'.N = cost.N]_vars

\* a registry without the assembled parameters
WithoutParams(c) == [k \in DOMAIN c \ {"params"} |-> c[k]]

\* the saved aggregate is the one build_cost_params saves in this state
Settled ==
    /\ Has(cost, "params")
    /\ BuildCostParams.exc = "none"
    /\ cost.params = BuildCostParams.p

ReadOfRegistered(r, c) ==
    /\ r.op \in {"get_cost_params", "compute_cost"}
    /\ r.args.name.given
    /\ Has(c, "params")
    /\ Has(c.idx.N, r.args.name.v)

ReadPositions(reg) == 0..(reg.NS - 1)

\* the insertion order read at those positions holds exactly the
\* registered block names, each once
ReadsEveryBlockOnce(reg) ==
    /\ \A k \in ReadPositions(reg) :
          Has(reg.order, k) /\ Has(reg.idx.N, reg.order[k])
    /\ \A name \in DOMAIN reg.idx.N :
          Cardinality({k \in ReadPositions(reg) :
                          Has(reg.order, k) /\ reg.order[k] = name}) = 1

\* C28: in every category, the stored insertion-order sequence at the
\* positions 0..NS-1 that the consumers iterate holds exactly the
\* registered block names, each once: every registered block is visited
\* exactly once and no position that is read is unpopulated.
C28_OrderPositions ==
    Laid =>
        \A reg \in {var, nln, lin, cost} :
            NoDuplicate(reg) => ReadsEveryBlockOnce(reg)

====
